---- MODULE Spec2Model ----
(***************************************************************************)
(* A model of two pieces of the gorouter HTTP edge router:                 *)
(*                                                                         *)
(*   - proxyResponseWriter (proxy/utils/responsewriter.go): the wrapper    *)
(*     around the transport's http.ResponseWriter, with its recorded       *)
(*     status, its byte count and its done latch;                          *)
(*   - routeService.ServeHTTP (handlers): the middleware that decides      *)
(*     whether a request goes through a route service.                     *)
(*                                                                         *)
(* SpecWriter is the state machine of one response writer driven by an     *)
(* arbitrary caller; SpecCaps is the same writer over an underlying writer *)
(* of any capabilities, with Hijack and CloseNotify; SpecRS is the         *)
(* middleware handling one request after another; SpecConc is the          *)
(* middleware handling two requests at once.  Text that the code           *)
(* manipulates (hosts, URIs, URLs, header values) is a sequence of         *)
(* one-character strings, so concatenation and port stripping are          *)
(* computed, not assumed.                                                  *)
(***************************************************************************)
EXTENDS Integers, Sequences, FiniteSets, TLC

VARIABLES
    p,          \* the proxyResponseWriter: [status, size, done]
    w,          \* the underlying http.ResponseWriter p.w: [Header, calls, caps]
                \* and what it observed: [seen, last, written, gone]
    panicked,   \* NewProxyResponseWriter panicked: there is no writer
    ret,        \* what the last call on the writer returned
    config,     \* the RouteServiceConfig: [enabled, recommendHttps]
    registry,   \* the route registry: route URI -> pool
    phase,      \* "idle", "arrived" (a request waits), "handled"
    req,        \* the request as it reached the middleware
    out,        \* what ServeHTTP did with it: [rw, req, calls]
    sent,       \* the forwarded URL the request was signed with on its way
                \* out, when it now comes back from the route service
    workers,    \* requests handled at the same time: worker -> [pc, req, out]
    frames      \* the local variables of their ServeHTTP calls

writerVars == <<p, w, panicked, ret>>

rsVars == <<config, registry, phase, req, out, sent>>

concVars == <<workers, frames>>

vars == <<p, w, panicked, ret, config, registry, phase, req, out, sent, workers, frames>>

----------------------------------------------------------------------------
(* Bounds of the writer model *)

\* the underlying writer records at most this many calls
MaxCalls == 3

\* a caller's byte slice has at most this many bytes
MaxLen == 2

----------------------------------------------------------------------------
(* The response writer *)

StatusOK == 200

\* the status codes a caller passes to WriteHeader (an int: 0 is accepted)
Statuses == {0, StatusOK, 404}

\* the optional interfaces the underlying writer may implement
Capabilities == {"Flusher", "Hijacker", "CloseNotifier"}

\* the Content-Type entry of the underlying header map is "absent" (no key),
\* "nil" (a key with a nil value) or a value the caller set
NoRet == [op |-> "none", n |-> 0, err |-> FALSE]

\* what the underlying writer has been asked to do, in order
Call(name, arg) == [call |-> name, arg |-> arg]

\* An underlying writer nothing was written to.  Besides its header map, the
\* calls it got and the interfaces it implements, it keeps what it observed:
\* seen is the Content-Type entry it found when the last WriteHeader reached
\* it ("none" before), last the (n, err) it answered to the last Write,
\* written the bytes it reported written in all, gone whether its client has
\* disconnected.
FreshWriter(caps) ==
    [Header |-> "absent", calls |-> <<>>, caps |-> caps,
     seen |-> "none", last |-> <<0, FALSE>>, written |-> 0, gone |-> FALSE]

\* NewProxyResponseWriter: status 0, size 0, done false.  The unchecked type
\* assertion w.(http.Flusher) panics when w is no Flusher.
NewProxyResponseWriter(caps) ==
    /\ p = [status |-> 0, size |-> 0, done |-> FALSE]
    /\ w = FreshWriter(caps)
    /\ panicked = ("Flusher" \notin caps)
    /\ ret = NoRet

\* The body of WriteHeader(s) as a function of the pair (p, w): the pair
\* after the call.  Write uses it for its implicit WriteHeader(200).
WriteHeaderOverwrites(pw, s) ==
    IF pw.p.done
    THEN pw
    ELSE LET hdr == IF pw.w.Header = "absent" THEN "nil" ELSE pw.w.Header
             w1  == [pw.w EXCEPT !.Header = hdr,
                                 !.seen = hdr,
                                 !.calls = Append(@, Call("WriteHeader", s))]
         IN  [p |-> [pw.p EXCEPT !.status = s], w |-> w1]

WriteHeaderDefaultsAfterForwarding(pw, s) ==
    IF pw.p.done
    THEN pw
    ELSE LET hdr == IF pw.w.Header = "absent" THEN "nil" ELSE pw.w.Header
             w1  == [pw.w EXCEPT !.Header = hdr,
                                 !.seen = pw.w.Header,
                                 !.calls = Append(@, Call("WriteHeader", s))]
             p1  == IF pw.p.status = 0 THEN [pw.p EXCEPT !.status = s] ELSE pw.p
         IN  [p |-> p1, w |-> w1]

doWriteHeader(pw, s) ==
    IF pw.p.done
    THEN pw
    ELSE LET hdr == IF pw.w.Header = "absent" THEN "nil" ELSE pw.w.Header
             w1  == [pw.w EXCEPT !.Header = hdr,
                                 !.seen = hdr,
                                 !.calls = Append(@, Call("WriteHeader", s))]
             p1  == IF pw.p.status = 0 THEN [pw.p EXCEPT !.status = s] ELSE pw.p
         IN  [p |-> p1, w |-> w1]

\* The body of Write(b) for a slice of len bytes, of which the underlying
\* writer reports n written with error err: the pair after the call and the
\* (int, error) returned.
WriteNoImplicitHeader(pw, len, n, err) ==
    IF pw.p.done
    THEN [p |-> pw.p, w |-> pw.w, n |-> 0, err |-> FALSE]
    ELSE LET w2 == [pw.w EXCEPT !.calls = Append(@, Call("Write", len)),
                                !.last = <<n, err>>,
                                !.written = @ + n]
         IN  [p |-> [pw.p EXCEPT !.size = @ + n], w |-> w2, n |-> n, err |-> err]

WriteNoDoneCheck(pw, len, n, err) ==
    LET h  == IF pw.p.status = 0 THEN doWriteHeader(pw, StatusOK) ELSE pw
        w2 == [h.w EXCEPT !.calls = Append(@, Call("Write", len)),
                          !.last = <<n, err>>,
                          !.written = @ + n]
    IN  [p |-> [h.p EXCEPT !.size = @ + n], w |-> w2, n |-> n, err |-> err]

WriteCountsRequested(pw, len, n, err) ==
    IF pw.p.done
    THEN [p |-> pw.p, w |-> pw.w, n |-> 0, err |-> FALSE]
    ELSE LET h  == IF pw.p.status = 0 THEN doWriteHeader(pw, StatusOK) ELSE pw
             w2 == [h.w EXCEPT !.calls = Append(@, Call("Write", len)),
                               !.last = <<n, err>>,
                               !.written = @ + n]
         IN  [p |-> [h.p EXCEPT !.size = @ + len], w |-> w2, n |-> n, err |-> err]

doWrite(pw, len, n, err) ==
    IF pw.p.done
    THEN [p |-> pw.p, w |-> pw.w, n |-> 0, err |-> FALSE]
    ELSE LET h  == IF pw.p.status = 0 THEN doWriteHeader(pw, StatusOK) ELSE pw
             w2 == [h.w EXCEPT !.calls = Append(@, Call("Write", len)),
                               !.last = <<n, err>>,
                               !.written = @ + n]
         IN  [p |-> [h.p EXCEPT !.size = @ + n], w |-> w2, n |-> n, err |-> err]

\* the calls a WriteHeader or a Write may add to the underlying writer's record
Room(k) == Len(w.calls) + k <= MaxCalls

WriteHeader(s) ==
    /\ ~panicked
    /\ p.done \/ Room(1)
    /\ LET r == doWriteHeader([p |-> p, w |-> w], s)
       IN  /\ p' = r.p
           /\ w' = r.w
    /\ ret' = [op |-> "WriteHeader", n |-> s, err |-> FALSE]
    /\ UNCHANGED <<panicked, rsVars, concVars>>

Write(len, n, err) ==
    /\ ~panicked
    /\ p.done \/ Room(IF p.status = 0 THEN 2 ELSE 1)
    /\ LET r == doWrite([p |-> p, w |-> w], len, n, err)
       IN  /\ p' = r.p
           /\ w' = r.w
           /\ ret' = [op |-> "Write", n |-> r.n, err |-> r.err]
    /\ UNCHANGED <<panicked, rsVars, concVars>>

Done ==
    /\ ~panicked
    /\ p' = [p EXCEPT !.done = TRUE]
    /\ ret' = [op |-> "Done", n |-> 0, err |-> FALSE]
    /\ UNCHANGED <<w, panicked, rsVars, concVars>>

\* p.flusher is the underlying writer itself, so it is non-nil whenever the
\* constructor returned
Flush ==
    /\ ~panicked
    /\ Room(1)
    /\ w' = [w EXCEPT !.calls = Append(@, Call("Flush", 0))]
    /\ ret' = [op |-> "Flush", n |-> 0, err |-> FALSE]
    /\ UNCHANGED <<p, panicked, rsVars, concVars>>

Status ==
    /\ ~panicked
    /\ ret' = [op |-> "Status", n |-> p.status, err |-> FALSE]
    /\ UNCHANGED <<p, w, panicked, rsVars, concVars>>

Size ==
    /\ ~panicked
    /\ ret' = [op |-> "Size", n |-> p.size, err |-> FALSE]
    /\ UNCHANGED <<p, w, panicked, rsVars, concVars>>

\* Header() hands out the underlying header map; the caller sets or deletes
\* Content-Type through it
Header(ct) ==
    /\ ~panicked
    /\ w' = [w EXCEPT !.Header = ct]
    /\ ret' = [op |-> "Header", n |-> 0, err |-> FALSE]
    /\ UNCHANGED <<p, panicked, rsVars, concVars>>

\* What the underlying Hijack may answer: the connection and its buffered
\* reader-writer, or an error of its own.
HijackResults ==
    {[conn |-> "conn", rw |-> "bufrw", err |-> "nil"],
     [conn |-> "nil", rw |-> "nil", err |-> "underlying error"]}

\* The body of Hijack() when the underlying Hijack would answer res: the pair
\* (p, w) after the call and the (conn, rw, err) returned.  The underlying
\* record keeps whether the hijack it got succeeded (arg 1) or not (arg 0).
HijackDropsError(pw, res) ==
    IF "Hijacker" \notin pw.w.caps
    THEN [p |-> pw.p, w |-> pw.w, conn |-> "nil", rw |-> "nil",
          err |-> "response writer cannot hijack"]
    ELSE [p |-> pw.p,
          w |-> [pw.w EXCEPT !.calls = Append(@, Call("Hijack", IF res.err = "nil" THEN 1 ELSE 0))],
          conn |-> res.conn, rw |-> res.rw, err |-> "nil"]

HijackSetsDone(pw, res) ==
    IF "Hijacker" \notin pw.w.caps
    THEN [p |-> pw.p, w |-> pw.w, conn |-> "nil", rw |-> "nil",
          err |-> "response writer cannot hijack"]
    ELSE [p |-> [pw.p EXCEPT !.done = (res.err = "nil")],
          w |-> [pw.w EXCEPT !.calls = Append(@, Call("Hijack", IF res.err = "nil" THEN 1 ELSE 0))],
          conn |-> res.conn, rw |-> res.rw, err |-> res.err]

doHijack(pw, res) ==
    IF "Hijacker" \notin pw.w.caps
    THEN [p |-> pw.p, w |-> pw.w, conn |-> "nil", rw |-> "nil",
          err |-> "response writer cannot hijack"]
    ELSE [p |-> pw.p,
          w |-> [pw.w EXCEPT !.calls = Append(@, Call("Hijack", IF res.err = "nil" THEN 1 ELSE 0))],
          conn |-> res.conn, rw |-> res.rw, err |-> res.err]

Hijack(res) ==
    /\ ~panicked
    /\ "Hijacker" \notin w.caps \/ Room(1)
    /\ LET r == doHijack([p |-> p, w |-> w], res)
       IN  /\ p' = r.p
           /\ w' = r.w
           /\ ret' = [op |-> "Hijack", n |-> 0, err |-> r.err # "nil",
                      conn |-> r.conn, rw |-> r.rw, msg |-> r.err]
    /\ UNCHANGED <<panicked, rsVars, concVars>>

\* A channel is the underlying writer's close-notification channel
\* ("underlying"), a channel just made that nothing else refers to ("fresh"),
\* or a closed channel ("closed").  A receive on it yields a value once the
\* client of the underlying writer is gone, never, or at once.
Emits(ch, under) ==
    \/ ch = "closed"
    \/ ch = "underlying" /\ under.gone

\* The body of CloseNotify(): the underlying writer after the call and the
\* channel returned.
CloseNotifyClosedChannel(under) ==
    IF "CloseNotifier" \in under.caps
    THEN [w |-> [under EXCEPT !.calls = Append(@, Call("CloseNotify", 0))],
          chan |-> "underlying"]
    ELSE [w |-> under, chan |-> "closed"]

doCloseNotify(under) ==
    IF "CloseNotifier" \in under.caps
    THEN [w |-> [under EXCEPT !.calls = Append(@, Call("CloseNotify", 0))],
          chan |-> "underlying"]
    ELSE [w |-> under, chan |-> "fresh"]

CloseNotify ==
    /\ ~panicked
    /\ "CloseNotifier" \notin w.caps \/ Room(1)
    /\ LET r == doCloseNotify(w)
       IN  /\ w' = r.w
           /\ ret' = [op |-> "CloseNotify", n |-> 0, err |-> FALSE, chan |-> r.chan]
    /\ UNCHANGED <<p, panicked, rsVars, concVars>>

\* the client of the underlying writer goes away
ClientGone ==
    /\ ~panicked
    /\ ~w.gone
    /\ w' = [w EXCEPT !.gone = TRUE]
    /\ UNCHANGED <<p, ret, panicked, rsVars, concVars>>

\* what the underlying Write may report for a slice of len bytes: all of it,
\* or fewer bytes together with an error
WriteResults(len) ==
    {nr \in (0 .. len) \X BOOLEAN : nr[1] < len => nr[2]}

----------------------------------------------------------------------------
(* Text: a string is a sequence of one-character strings *)

Empty == <<>>

SchemeHttps == <<"h", "t", "t", "p", "s">>

SchemeHttp == <<"h", "t", "t", "p">>

SchemeSep == <<":", "/", "/">>

HostApp == <<"a", "p", "p", ".", "e", "x", "a", "m", "p", "l", "e", ".", "c", "o", "m">>

HostAppPort == <<"a", "p", "p", ".", "e", "x", "a", "m", "p", "l", "e", ".", "c", "o", "m", ":", "8", "0", "8", "0">>

UriFoo == <<"/", "f", "o", "o">>

UriBar == <<"/", "b", "a", "r">>

\* the route-service URL bound to the backend's route
RouteServiceURL == <<"h", "t", "t", "p", "s", ":", "/", "/", "r", "s", ".", "e", "x", "a", "m", "p", "l", "e", ".", "c", "o", "m", "/", "r", "s">>

\* host and path of RouteServiceURL, as the registry keys its routes
RouteServiceRouteURI == <<"r", "s", ".", "e", "x", "a", "m", "p", "l", "e", ".", "c", "o", "m", "/", "r", "s">>

ForwardedFoo == <<"h", "t", "t", "p", "s", ":", "/", "/", "a", "p", "p", ".", "e", "x", "a", "m", "p", "l", "e", ".", "c", "o", "m", "/", "f", "o", "o">>

\* the index of the first c in s, 0 when there is none (strings.Index)
Index(s, c) ==
    IF \E i \in 1 .. Len(s) : s[i] = c
    THEN CHOOSE i \in 1 .. Len(s) : s[i] = c /\ \A j \in 1 .. (i - 1) : s[j] # c
    ELSE 0

\* the index at which the first occurrence of sub starts in s, 0 when none
IndexOfSub(s, sub) ==
    LET at(i) == i + Len(sub) - 1 <= Len(s) /\ SubSeq(s, i, i + Len(sub) - 1) = sub
    IN  IF \E i \in 1 .. Len(s) : at(i)
        THEN CHOOSE i \in 1 .. Len(s) : at(i) /\ \A j \in 1 .. (i - 1) : ~at(j)
        ELSE 0

----------------------------------------------------------------------------
(* Requests, headers, contexts, pools *)

RouteServiceSignature == "X-CF-Proxy-Signature"

RouteServiceMetadata == "X-CF-Proxy-Metadata"

RouteServiceForwardedURL == "X-CF-Forwarded-Url"

\* a header of the request that is no part of the route-service protocol
OtherHeader == "Accept"

HeaderNames ==
    {RouteServiceSignature, RouteServiceMetadata, RouteServiceForwardedURL, OtherHeader}

\* http.Header: each name has a sequence of values, empty when the name is
\* not in the map.  Names are compared as the canonical MIME keys they are.
Get(h, name) == IF h[name] = <<>> THEN Empty ELSE h[name][1]

Set(h, name, value) == [h EXCEPT ![name] = <<value>>]

Del(h, name) == [h EXCEPT ![name] = <<>>]

Absent == [kind |-> "absent"]

\* a nil *route.Pool
NilPool == [kind |-> "nil"]

Pool(name, rsUrl, endpoints) ==
    [kind |-> "pool", name |-> name, routeServiceUrl |-> rsUrl, endpoints |-> endpoints]

RouteServiceUrl(pool) == pool.routeServiceUrl

IsEmpty(pool) == pool.endpoints = 0

\* context.WithValue
WithValue(ctx, k, v) == [ctx EXCEPT ![k] = v]

Lookup(uri) == IF uri \in DOMAIN registry THEN registry[uri] ELSE NilPool

\* the response the middleware itself wrote: status 0 is "nothing written"
NoResponse == [status |-> 0, body |-> "", routerError |-> ""]

\* one call the handler made to a collaborator or to the continuation: its
\* arguments and what it answered
RSCall(op, args, res) == [op |-> op, args |-> args, res |-> res]

\* the answer of a call that returns nothing
Void == [kind |-> "void"]

Outcome(rw, r, calls) == [rw |-> rw, req |-> r, calls |-> calls]

NoOutcome == Outcome(NoResponse, Absent, <<>>)

\* the signature token the signing collaborator issues for a forwarded URL
SignatureOf(forwardedURL) == <<"#">> \o forwardedURL

ForgedSignature == <<"#", "x">>

MetadataToken == <<"m">>

\* url.Parse of a route-service URL: the host and the path
ParseURL(u) ==
    LET i    == IndexOfSub(u, SchemeSep)
        rest == IF i > 0 THEN SubSeq(u, i + Len(SchemeSep), Len(u)) ELSE u
        j    == Index(rest, "/")
    IN  [kind |-> "url",
         Host |-> IF j > 0 THEN SubSeq(rest, 1, j - 1) ELSE rest,
         Path |-> IF j > 0 THEN SubSeq(rest, j, Len(rest)) ELSE Empty]

\* RouteServiceConfig.Request(rsUrl, forwardedUrl): the signed parameters, or
\* an error
RequestResults(rsUrl, forwardedURL) ==
    { [err |-> TRUE, args |-> Absent],
      [err |-> FALSE,
       args |-> [URLString |-> rsUrl,
                 ParsedUrl |-> ParseURL(rsUrl),
                 Signature |-> SignatureOf(forwardedURL),
                 Metadata |-> MetadataToken,
                 ForwardedURL |-> forwardedURL]] }

\* RouteServiceConfig.ValidateSignature(headers, forwardedUrl): TRUE is an
\* error.  A token issued for another URL never validates; one issued for
\* this URL validates unless it has expired.
ValidateErrors(h, forwardedURL) ==
    IF Get(h, RouteServiceSignature) = SignatureOf(forwardedURL)
    THEN {FALSE, TRUE}
    ELSE {TRUE}

\* the host of the request with ":port" cut off
hostWithoutPort(r) ==
    LET pos == Index(r.Host, ":")
    IN  IF pos > 0 THEN SubSeq(r.Host, 1, pos - 1) ELSE r.Host

\* http.Error
httpError(rw, message, code) == [rw EXCEPT !.status = code, !.body = message]

\* writeStatus: the response gets the status code and the message
writeStatus(rw, code, message) == httpError(rw, message, code)

----------------------------------------------------------------------------
(* routeService.ServeHTTP *)

StatusBadGateway == 502

StatusBadRequest == 400

StatusInternalServerError == 500

hasBeenToRouteServiceInverted(rsUrl, sigHeader) == sigHeader = Empty /\ rsUrl # Empty

hasBeenToRouteService(rsUrl, sigHeader) == sigHeader # Empty /\ rsUrl # Empty

routeServiceUnsupportedNoNegation(routeServiceUrl) ==
    routeServiceUrl # Empty /\ config.enabled

routeServiceUnsupportedAnyUrl(routeServiceUrl) == ~config.enabled

\* "attempted to use a route service when it is not supported"
routeServiceUnsupported(routeServiceUrl) ==
    routeServiceUrl # Empty /\ ~config.enabled

recommendedSchemeHardcoded == SchemeHttp

recommendedScheme == IF config.recommendHttps THEN SchemeHttps ELSE SchemeHttp

forwardedURLRawKeepsPort(r) ==
    recommendedScheme \o SchemeSep \o r.Host \o r.RequestURI

forwardedURLRaw(r) ==
    recommendedScheme \o SchemeSep \o hostWithoutPort(r) \o r.RequestURI

stripHeadersKeepsMetadata(h) ==
    Del(Del(h, RouteServiceSignature), RouteServiceForwardedURL)

\* "remove the headers since the backend should not see it"
stripHeaders(h) ==
    Del(Del(Del(h, RouteServiceSignature), RouteServiceMetadata),
        RouteServiceForwardedURL)

\* a request from a route service destined for a backend: validate, strip,
\* go on.  One outcome per answer ValidateSignature may give.
returnLeg(r, forwardedURL) ==
    LET validated(err) == RSCall("ValidateSignature", <<r.Header, forwardedURL>>, err)
        r1             == [r EXCEPT !.Header = stripHeaders(@)]
    IN  {IF validateErr
         THEN Outcome(writeStatus(NoResponse, StatusBadRequest,
                                  "Failed to validate Route Service Signature"),
                      r, <<validated(TRUE)>>)
         ELSE Outcome(NoResponse, r1,
                      <<validated(FALSE), RSCall("next", <<r1>>, Void)>>) :
         validateErr \in ValidateErrors(r.Header, forwardedURL)}

externalRouteServiceNilOnly(rsPool) == rsPool = NilPool

\* no pool in the registry, or a pool with no endpoint: the route service is
\* not an app behind this router
externalRouteService(rsPool) == rsPool = NilPool \/ IsEmpty(rsPool)

withRoutePoolDropped(ctx, rsPool) == ctx

withRoutePool(ctx, rsPool) == WithValue(ctx, "RoutePool", rsPool)

\* the request after a successful Request: the three headers set, the parsed
\* route-service URL and the route service's pool in its context
signedRequest(r, args) ==
    LET h1   == Set(r.Header, RouteServiceSignature, args.Signature)
        h2   == Set(h1, RouteServiceMetadata, args.Metadata)
        h3   == Set(h2, RouteServiceForwardedURL, args.ForwardedURL)
        ctx1 == WithValue(r.ctx, "RouteServiceURL", args.ParsedUrl)
    IN  [r EXCEPT !.Header = h3,
                  !.ctx = withRoutePool(ctx1,
                                        Lookup(args.ParsedUrl.Host \o args.ParsedUrl.Path))]

outboundLegFallsThrough(r, routeServiceUrl, forwardedURL) ==
    LET request(res) == RSCall("Request", <<routeServiceUrl, forwardedURL>>, res)
    IN  {IF requested.err
         THEN Outcome(writeStatus(NoResponse, StatusInternalServerError,
                                  "Route service request failed."),
                      r, <<request(requested)>>)
         ELSE LET routeURI == requested.args.ParsedUrl.Host \o requested.args.ParsedUrl.Path
                  lookup   == RSCall("Lookup", <<routeURI>>, Lookup(routeURI))
                  r1       == signedRequest(r, requested.args)
              IN  IF externalRouteService(Lookup(routeURI))
                  THEN Outcome(NoResponse, r1,
                               <<request(requested), lookup,
                                 RSCall("rsReverseProxy", <<r1>>, Void),
                                 RSCall("next", <<r1>>, Void)>>)
                  ELSE Outcome(NoResponse, r1,
                               <<request(requested), lookup,
                                 RSCall("next", <<r1>>, Void)>>) :
         requested \in RequestResults(routeServiceUrl, forwardedURL)}

\* a request on its way to the route service: sign, set the headers, resolve
\* the route service's pool, then proxy (external) or go on (internal).  One
\* outcome per answer Request may give.
outboundLeg(r, routeServiceUrl, forwardedURL) ==
    LET request(res) == RSCall("Request", <<routeServiceUrl, forwardedURL>>, res)
    IN  {IF requested.err
         THEN Outcome(writeStatus(NoResponse, StatusInternalServerError,
                                  "Route service request failed."),
                      r, <<request(requested)>>)
         ELSE LET routeURI == requested.args.ParsedUrl.Host \o requested.args.ParsedUrl.Path
                  lookup   == RSCall("Lookup", <<routeURI>>, Lookup(routeURI))
                  r1       == signedRequest(r, requested.args)
              IN  IF externalRouteService(Lookup(routeURI))
                  THEN Outcome(NoResponse, r1,
                               <<request(requested), lookup,
                                 RSCall("rsReverseProxy", <<r1>>, Void)>>)
                  ELSE Outcome(NoResponse, r1,
                               <<request(requested), lookup,
                                 RSCall("next", <<r1>>, Void)>>) :
         requested \in RequestResults(routeServiceUrl, forwardedURL)}

routePoolNotSetGoesOn(r) ==
    {Outcome(httpError(NoResponse, "RoutePool not set on context", StatusBadGateway),
             r, <<RSCall("next", <<r>>, Void)>>)}

\* no pool in the context of the request: answer 502 and return
routePoolNotSet(r) ==
    {Outcome(httpError(NoResponse, "RoutePool not set on context", StatusBadGateway),
             r, <<>>)}

\* the handler from its first line to its last, given the forwarded URL it
\* built on the way: what it may do with the request r, one outcome per
\* answer of the collaborator it asks
handle(r, forwardedURL) ==
    IF r.ctx.RoutePool = Absent
    THEN routePoolNotSet(r)
    ELSE LET routeServiceUrl == RouteServiceUrl(r.ctx.RoutePool)
         IN  IF routeServiceUnsupported(routeServiceUrl)
             THEN {Outcome(writeStatus([NoResponse EXCEPT
                                           !.routerError = "route_service_unsupported"],
                                       StatusBadGateway,
                                       "Support for route services is disabled."),
                           r, <<>>)}
             ELSE IF routeServiceUrl # Empty
             THEN LET rsSignature == Get(r.Header, RouteServiceSignature)
                  IN  IF hasBeenToRouteService(routeServiceUrl, rsSignature)
                      THEN returnLeg(r, forwardedURL)
                      ELSE outboundLeg(r, routeServiceUrl, forwardedURL)
             ELSE {Outcome(NoResponse, r, <<RSCall("next", <<r>>, Void)>>)}

\* the whole handler
serveHTTP(r) == handle(r, forwardedURLRaw(r))

----------------------------------------------------------------------------
(* The requests that arrive *)

Hosts == {HostApp, HostAppPort}

RequestURIs == {UriFoo, UriBar}

ForwardedURLs ==
    {sch \o SchemeSep \o HostApp \o uri : sch \in {SchemeHttp, SchemeHttps},
                                          uri \in RequestURIs}

\* the values of the signature header: none, an empty one, a forged token, an
\* empty value ahead of a token, a token issued for some forwarded URL
SignatureHeaders ==
    {<<>>, <<Empty>>, <<ForgedSignature>>, <<Empty, ForgedSignature>>}
        \cup {<<SignatureOf(f)>> : f \in ForwardedURLs}

Headers ==
    {[n \in HeaderNames |->
        CASE n = RouteServiceSignature -> sig
          [] n = RouteServiceMetadata -> md
          [] n = RouteServiceForwardedURL -> fw
          [] OTHER -> << <<"*">> >>] :
     sig \in SignatureHeaders,
     md \in {<<>>, <<MetadataToken>>},
     fw \in {<<>>, <<ForwardedFoo>>}}

\* the pool an earlier stage resolved for the request, if it did
BackendPools ==
    {Absent, Pool("backend", Empty, 1), Pool("backend", RouteServiceURL, 1)}

Requests ==
    {[Host |-> h, RequestURI |-> u, Header |-> hd,
      ctx |-> [RoutePool |-> rp, RouteServiceURL |-> Absent]] :
     h \in Hosts, u \in RequestURIs, hd \in Headers, rp \in BackendPools}

\* what the registry may hold for the route service's own route
RouteServicePools == {NilPool, Pool("rs", Empty, 0), Pool("rs", Empty, 1)}

\* the goroutines that handle requests at the same time
Workers == {"a", "b"}

\* the local variables of one ServeHTTP call
NoFrame == [forwardedURLRaw |-> Absent]

\* no request is being handled concurrently
ConcIdle ==
    /\ workers = [i \in Workers |-> [pc |-> "idle", req |-> Absent, out |-> NoOutcome]]
    /\ frames = [i \in Workers |-> NoFrame]

\* no writer: the middleware's specification leaves these alone
WriterIdle ==
    /\ p = [status |-> 0, size |-> 0, done |-> FALSE]
    /\ w = FreshWriter({})
    /\ panicked = TRUE
    /\ ret = NoRet

RSInit ==
    /\ WriterIdle
    /\ ConcIdle
    /\ config \in [enabled : BOOLEAN, recommendHttps : BOOLEAN]
    /\ registry \in [{RouteServiceRouteURI} -> RouteServicePools]
    /\ phase = "idle"
    /\ req = Absent
    /\ out = NoOutcome
    /\ sent = Absent

\* a request reaches the middleware
Arrive(r) ==
    /\ phase \in {"idle", "handled"}
    /\ phase' = "arrived"
    /\ req' = r
    /\ out' = NoOutcome
    /\ sent' = Absent
    /\ UNCHANGED <<config, registry, writerVars, concVars>>

\* the handler signed the request and sent it on to the route service
SignedOut ==
    /\ phase = "handled"
    /\ out.rw.status = 0
    /\ \E i \in 1 .. Len(out.calls) : out.calls[i].op = "Request"

\* The route service sends the request it got back to the router: the headers
\* are those the handler set on the way out, the URI is the same, the host is
\* the same with or without a port, and the earlier stage resolves the same
\* backend pool.
ReturnFromRouteService(h) ==
    /\ SignedOut
    /\ phase' = "arrived"
    /\ req' = [Host |-> h, RequestURI |-> req.RequestURI,
               Header |-> out.req.Header, ctx |-> req.ctx]
    /\ out' = NoOutcome
    /\ sent' = out.calls[1].args[2]
    /\ UNCHANGED <<config, registry, writerVars, concVars>>

ServeHTTP ==
    /\ phase = "arrived"
    /\ out' \in serveHTTP(req)
    /\ phase' = "handled"
    /\ UNCHANGED <<config, registry, req, sent, writerVars, concVars>>

----------------------------------------------------------------------------
(* Specifications *)

\* no middleware: the writer's specification leaves these alone
RSIdle ==
    /\ ConcIdle
    /\ sent = Absent
    /\ config = [enabled |-> FALSE, recommendHttps |-> FALSE]
    /\ registry = << >>
    /\ phase = "idle"
    /\ req = Absent
    /\ out = NoOutcome

\* the operations of this specification use no capability but Flusher
WriterInit ==
    /\ \E caps \in SUBSET {"Flusher"} : NewProxyResponseWriter(caps)
    /\ RSIdle

WriterNext ==
    \/ \E s \in Statuses : WriteHeader(s)
    \/ \E len \in 0 .. MaxLen : \E nr \in WriteResults(len) : Write(len, nr[1], nr[2])
    \/ Done
    \/ Flush
    \/ Status
    \/ Size
    \/ \E ct \in {"absent", "text/html"} : Header(ct)

SpecWriter == WriterInit /\ [][WriterNext]_vars

\* One writer over an underlying writer of any capabilities, with the optional
\* operations and one input of each kind for the others.
CapsInit ==
    /\ \E caps \in SUBSET Capabilities : NewProxyResponseWriter(caps)
    /\ RSIdle

CapsNext ==
    \/ WriteHeader(404)
    \/ Write(1, 1, FALSE)
    \/ Done
    \/ Flush
    \/ Status
    \/ Size
    \/ Header("text/html")
    \/ \E res \in HijackResults : Hijack(res)
    \/ CloseNotify
    \/ ClientGone

SpecCaps == CapsInit /\ [][CapsNext]_vars

\* The requests handled at the same time: each with a backend pool or none,
\* with a signature issued for /foo or none.
ConcRequests ==
    {r \in Requests :
        /\ r.Header[RouteServiceSignature] \in {<<>>, <<SignatureOf(ForwardedFoo)>>}
        /\ r.Header[RouteServiceMetadata] = <<>>
        /\ r.Header[RouteServiceForwardedURL] = <<>>
        /\ r.ctx.RoutePool \in {Absent, Pool("backend", RouteServiceURL, 1)}}

\* the handler gets as far as building the forwarded URL
reachesLegs(r) ==
    /\ r.ctx.RoutePool # Absent
    /\ ~routeServiceUnsupported(RouteServiceUrl(r.ctx.RoutePool))
    /\ RouteServiceUrl(r.ctx.RoutePool) # Empty

sharedFrame(i) == "a"

\* the local variables of a call are the call's own
frameOf(i) == i

ConcInit ==
    /\ WriterIdle
    /\ config \in [enabled : BOOLEAN, recommendHttps : BOOLEAN]
    /\ registry \in [{RouteServiceRouteURI} -> RouteServicePools]
    /\ phase = "idle"
    /\ req = Absent
    /\ out = NoOutcome
    /\ sent = Absent
    /\ ConcIdle

\* the server starts ServeHTTP for a request in a goroutine of its own
Begin(i, r) ==
    /\ workers[i].pc = "idle"
    /\ workers' = [workers EXCEPT ![i].pc = "begun", ![i].req = r]
    /\ UNCHANGED <<frames, rsVars, writerVars>>

\* the call reads the pool and the configuration and builds the forwarded URL
BuildForwardedURL(i) ==
    /\ workers[i].pc = "begun"
    /\ reachesLegs(workers[i].req)
    /\ frames' = [frames EXCEPT ![frameOf(i)].forwardedURLRaw =
                                    forwardedURLRaw(workers[i].req)]
    /\ workers' = [workers EXCEPT ![i].pc = "built"]
    /\ UNCHANGED <<rsVars, writerVars>>

\* the call asks its collaborator, with the forwarded URL it finds in its
\* local variable, and ends
Finish(i) ==
    /\ workers[i].pc \in {"begun", "built"}
    /\ workers[i].pc = (IF reachesLegs(workers[i].req) THEN "built" ELSE "begun")
    /\ \E o \in handle(workers[i].req, frames[frameOf(i)].forwardedURLRaw) :
          workers' = [workers EXCEPT ![i].pc = "done", ![i].out = o]
    /\ UNCHANGED <<frames, rsVars, writerVars>>

ConcNext ==
    \/ \E i \in Workers : \E r \in ConcRequests : Begin(i, r)
    \/ \E i \in Workers : BuildForwardedURL(i)
    \/ \E i \in Workers : Finish(i)

SpecConc == ConcInit /\ [][ConcNext]_vars

RSNext ==
    \/ \E r \in Requests : Arrive(r)
    \/ \E h \in Hosts : ReturnFromRouteService(h)
    \/ ServeHTTP

SpecRS == RSInit /\ [][RSNext]_vars

----------------------------------------------------------------------------
(* Properties of the response writer *)

\* the WriteHeader and Write calls among the calls the underlying writer got
HeaderOrBody(calls) ==
    SelectSeq(calls, LAMBDA c : c.call \in {"WriteHeader", "Write"})

HeaderWrites(calls) == SelectSeq(calls, LAMBDA c : c.call = "WriteHeader")

\* the status of the first WriteHeader call with a non-zero status that
\* reached the underlying writer; 0 when there is none
FirstNonZeroStatus(calls) ==
    LET nz == SelectSeq(calls, LAMBDA c : c.call = "WriteHeader" /\ c.arg # 0)
    IN  IF nz = <<>> THEN 0 ELSE Head(nz).arg

\* C1: Done is an absorbing latch.  In every step taken once done is set,
\* done stays set, status and size keep their values, the underlying writer
\* gets no further WriteHeader or Write call, and a Write returns (0, nil).
C1_DoneAbsorbing ==
    [][p.done =>
         /\ p'.done
         /\ p'.status = p.status
         /\ p'.size = p.size
         /\ HeaderOrBody(w'.calls) = HeaderOrBody(w.calls)
         /\ (ret'.op = "Write" => ret'.n = 0 /\ ~ret'.err)]_writerVars

\* C1 witness: a Write was attempted after Done on a writer that had already
\* recorded a status and written bytes.
C1_Witness ==
    /\ p.done
    /\ ret.op = "Write"
    /\ p.status # 0
    /\ p.size > 0

\* C2 (as amended): the recorded status, once non-zero, never changes; it is
\* the status of the first forwarded header write with a non-zero status, it
\* is what Status() returns, and a later WriteHeader on a writer that is not
\* done is forwarded and leaves it unchanged.
C2_StatusFrozenOnceNonZero ==
    /\ [](p.status = FirstNonZeroStatus(w.calls))
    /\ [](ret.op = "Status" => ret.n = FirstNonZeroStatus(w.calls))
    /\ [][p.status # 0 =>
            /\ p'.status = p.status
            /\ (~p.done /\ ret'.op = "WriteHeader" =>
                  w'.calls = Append(w.calls, Call("WriteHeader", ret'.n)))]_writerVars

\* C2 witness: two header writes with different non-zero statuses reached the
\* underlying writer and the recorded status is the first one.
C2_Witness ==
    /\ Len(HeaderWrites(w.calls)) >= 2
    /\ HeaderWrites(w.calls)[1].arg # 0
    /\ HeaderWrites(w.calls)[2].arg # HeaderWrites(w.calls)[1].arg
    /\ HeaderWrites(w.calls)[2].arg # 0
    /\ p.status = HeaderWrites(w.calls)[1].arg
    /\ ret.op = "Status"

\* C2 as stated: whatever the statuses passed, the recorded status is the
\* status of the first header write.
C2_StatusOfFirstHeaderWrite ==
    HeaderWrites(w.calls) # <<>> => p.status = Head(HeaderWrites(w.calls)).arg

\* C3: a Write on a writer that is not done and has no recorded status records
\* 200 and hands WriteHeader(200) to the underlying writer just before the
\* bytes; and the underlying writer never gets a Write that no WriteHeader
\* precedes.
C3_ImplicitHeaderBeforeBody ==
    /\ [][~p.done /\ p.status = 0 /\ ret'.op = "Write" =>
            /\ p'.status = StatusOK
            /\ Len(w'.calls) = Len(w.calls) + 2
            /\ SubSeq(w'.calls, 1, Len(w.calls)) = w.calls
            /\ w'.calls[Len(w.calls) + 1] = Call("WriteHeader", StatusOK)
            /\ w'.calls[Len(w.calls) + 2].call = "Write"]_writerVars
    /\ [](\A i \in 1 .. Len(w.calls) :
            w.calls[i].call = "Write" =>
                \E j \in 1 .. (i - 1) : w.calls[j].call = "WriteHeader")

\* C3 witness: the only header write the underlying writer got is the
\* WriteHeader(200) that a Write made, followed by that Write's bytes.
C3_Witness ==
    /\ ret.op = "Write"
    /\ ret.n > 0
    /\ p.status = StatusOK
    /\ w.calls = <<Call("WriteHeader", StatusOK), Call("Write", MaxLen)>>

\* C13 as stated: Flush reaches the underlying writer when that writer can
\* flush, and a writer constructed over an underlying writer that cannot
\* flush exists and its Flush completes without a fault and without effect.
C13_FlushWithoutFlusherIsNoOp ==
    /\ ("Flusher" \notin w.caps => ~panicked)
    /\ (ret.op = "Flush" /\ "Flusher" \in w.caps =>
           w.calls # <<>> /\ w.calls[Len(w.calls)] = Call("Flush", 0))

\* the last call the underlying writer got
LastCall == w.calls[Len(w.calls)]

\* the step is a call of op on the writer (the client of the underlying
\* writer going away is no call)
Called(op) == ret'.op = op /\ w'.gone = w.gone

\* C14: Hijack on an underlying writer that can hijack forwards the call and
\* returns exactly the connection, the reader-writer and the error that
\* writer answered; on one that cannot, it returns no connection, no
\* reader-writer and the error "response writer cannot hijack", leaves
\* status, size and done as they were and sends the underlying writer nothing.
C14_Hijack ==
    /\ [][Called("Hijack") /\ "Hijacker" \in w.caps =>
            /\ Len(w'.calls) = Len(w.calls) + 1
            /\ LastCall'.call = "Hijack"
            /\ \E res \in HijackResults :
                  /\ LastCall'.arg = (IF res.err = "nil" THEN 1 ELSE 0)
                  /\ ret'.conn = res.conn
                  /\ ret'.rw = res.rw
                  /\ ret'.msg = res.err]_writerVars
    /\ [][Called("Hijack") /\ "Hijacker" \notin w.caps =>
            /\ ret'.conn = "nil"
            /\ ret'.rw = "nil"
            /\ ret'.msg = "response writer cannot hijack"
            /\ p' = p
            /\ w' = w]_writerVars

\* C14 witness: a writer that has recorded a status and bytes, over an
\* underlying writer that cannot hijack, was asked to hijack.
C14_Witness ==
    /\ ret.op = "Hijack"
    /\ "Hijacker" \notin w.caps
    /\ ret.msg = "response writer cannot hijack"
    /\ p.status # 0
    /\ p.size > 0

\* C15: on an underlying writer without close notification, the channel that
\* CloseNotify returns never emits, whatever was done before and whether or
\* not the client has gone; on one with close notification, CloseNotify
\* forwards the call and returns that writer's channel.
C15_CloseNotify ==
    /\ [](ret.op = "CloseNotify" /\ "CloseNotifier" \notin w.caps =>
            ret.chan = "fresh" /\ ~Emits(ret.chan, w))
    /\ [](ret.op = "CloseNotify" /\ "CloseNotifier" \in w.caps =>
            ret.chan = "underlying")
    /\ [][Called("CloseNotify") =>
            IF "CloseNotifier" \in w.caps
            THEN w'.calls = Append(w.calls, Call("CloseNotify", 0))
            ELSE w' = w]_writerVars

\* C15 witness: the client has gone, the writer is done, and the channel
\* CloseNotify returned over an underlying writer without close notification
\* is still silent.
C15_Witness ==
    /\ ret.op = "CloseNotify"
    /\ "CloseNotifier" \notin w.caps
    /\ w.gone
    /\ p.done
    /\ w.calls # <<>>

\* C16: the recorded size is the sum of the byte counts the underlying writer
\* reported, it is what Size() returns, a Write on a writer that is not done
\* reaches the underlying writer and returns exactly the count and the error
\* that writer answered, error or not, and a Write on a done writer adds
\* nothing.
C16_SizeIsSumOfReportedCounts ==
    /\ [](p.size = w.written)
    /\ [](ret.op = "Size" => ret.n = w.written)
    /\ [][~p.done /\ ret'.op = "Write" =>
            /\ Len(w'.calls) > Len(w.calls)
            /\ LastCall'.call = "Write"
            /\ ret'.n = w'.last[1]
            /\ ret'.err = w'.last[2]
            /\ p'.size = p.size + w'.last[1]]_writerVars
    /\ [][p.done => w'.written = w.written /\ p'.size = p.size]_writerVars

\* C16 witness: after bytes were already counted, a Write of which the
\* underlying writer reported only a part, together with an error, was
\* counted too.
C16_Witness ==
    /\ ret.op = "Write"
    /\ ret.err
    /\ ret.n > 0
    /\ ret.n < LastCall.arg
    /\ LastCall.call = "Write"
    /\ p.size > ret.n

\* the Content-Type entry a WriteHeader leaves in a header map that had h
ContentTypeAfter(h) == IF h = "absent" THEN "nil" ELSE h

\* C19: a WriteHeader on a writer that is not done, explicit or made by a
\* Write with no status recorded, leaves a Content-Type entry in the header
\* map (the caller's when there was one, nil otherwise), and the underlying
\* writer finds that entry when the status reaches it; on a done writer the
\* header map stays as it was.
C19_ContentTypeEntry ==
    /\ [][~p.done /\ (ret'.op = "WriteHeader" \/ (ret'.op = "Write" /\ p.status = 0)) =>
            /\ w'.Header = ContentTypeAfter(w.Header)
            /\ w'.seen = ContentTypeAfter(w.Header)]_writerVars
    /\ [][p.done /\ ret'.op \in {"WriteHeader", "Write"} =>
            w'.Header = w.Header /\ w'.seen = w.seen]_writerVars
    /\ [](w.seen # "absent")

\* C19 witness: a status reached the underlying writer while the header map
\* had no Content-Type entry, and it found the nil entry.
C19_Witness ==
    /\ ret.op = "WriteHeader"
    /\ ~p.done
    /\ w.seen = "nil"
    /\ w.Header = "nil"
    /\ LastCall.call = "WriteHeader"

\* the underlying writer has answered a Hijack with a connection
Hijacked == \E i \in 1 .. Len(w.calls) : w.calls[i] = Call("Hijack", 1)

\* C20: Hijack, Flush, CloseNotify, Header, Status and Size leave status,
\* size and done as they are and work the same on a done writer (Flush, and
\* Hijack and CloseNotify where the underlying writer has them, reach it;
\* Status and Size return the recorded values); and after a successful
\* Hijack a Write or WriteHeader on a writer that is not done still reaches
\* the underlying writer.
C20_AuxiliaryOperations ==
    /\ [][(\E op \in {"Hijack", "Flush", "CloseNotify", "Header", "Status", "Size"} :
              Called(op)) =>
            p' = p]_writerVars
    /\ [][Called("Flush") => w'.calls = Append(w.calls, Call("Flush", 0))]_writerVars
    /\ [][Called("Hijack") /\ "Hijacker" \in w.caps =>
            Len(w'.calls) = Len(w.calls) + 1 /\ LastCall'.call = "Hijack"]_writerVars
    /\ [][Called("CloseNotify") /\ "CloseNotifier" \in w.caps =>
            w'.calls = Append(w.calls, Call("CloseNotify", 0))]_writerVars
    /\ [](ret.op = "Status" => ret.n = p.status)
    /\ [](ret.op = "Size" => ret.n = p.size)
    /\ [][Hijacked /\ ~p.done /\ (Called("Write") \/ Called("WriteHeader")) =>
            /\ Len(w'.calls) > Len(w.calls)
            /\ LastCall'.call = ret'.op]_writerVars

\* C20 witness: a Write reached the underlying writer after a successful
\* Hijack on a writer nobody had marked done.
C20_Witness ==
    /\ Hijacked
    /\ ~p.done
    /\ ret.op = "Write"
    /\ LastCall.call = "Write"
    /\ p.size > 0

----------------------------------------------------------------------------
(* Properties of the route-service middleware *)

Handled == phase = "handled"

\* the handled request came with a pool that names a route service
ToRouteService ==
    /\ Handled
    /\ req.ctx.RoutePool # Absent
    /\ RouteServiceUrl(req.ctx.RoutePool) # Empty

\* the calls of the handler to one collaborator, in order
CallsTo(op) == SelectSeq(out.calls, LAMBDA c : c.op = op)

Count(op) == Len(CallsTo(op))

\* the three route-service headers
ProtocolHeaders ==
    {RouteServiceSignature, RouteServiceMetadata, RouteServiceForwardedURL}

\* the forwarded URL of the handled request, spelled out: both hosts of the
\* model are app.example.com, one of them with a port
ExpectedForwardedURL ==
    (IF config.recommendHttps THEN SchemeHttps ELSE SchemeHttp)
        \o SchemeSep \o HostApp \o req.RequestURI

\* the handler took the return leg: it asked for validation and for nothing
\* that belongs to the outbound leg
WentToValidation ==
    /\ Count("ValidateSignature") = 1
    /\ out.calls[1].op = "ValidateSignature"
    /\ Count("Request") = 0
    /\ Count("Lookup") = 0
    /\ Count("rsReverseProxy") = 0

\* C4 (as amended): with a route-service URL and the feature enabled, the leg
\* is decided by whether the first value of the signature header is
\* non-empty, whatever that value is and whether or not it validates: such a
\* request goes to validation and never to the signing collaborator, the
\* registry or the delegated proxy; a request whose signature header is absent
\* or empty is signed and never validated.
C4_ReturnLegBySignatureValue ==
    ToRouteService /\ config.enabled =>
        IF Get(req.Header, RouteServiceSignature) # Empty
        THEN WentToValidation
        ELSE Count("ValidateSignature") = 0 /\ Count("Request") = 1

\* C4 witness: a forged signature went to validation and was rejected there.
C4_Witness ==
    /\ ToRouteService
    /\ config.enabled
    /\ req.Header[RouteServiceSignature] = <<ForgedSignature>>
    /\ WentToValidation
    /\ out.calls[1].res = TRUE
    /\ out.rw.status = StatusBadRequest

\* C4 as stated: every request on which the signature header is present goes
\* to validation and is never treated as outbound.
C4_ReturnLegByHeaderPresence ==
    ToRouteService /\ config.enabled /\ req.Header[RouteServiceSignature] # <<>> =>
        WentToValidation

\* what C5 says of a request on the return leg
ReturnLegOutcome ==
    /\ WentToValidation
    /\ IF out.calls[1].res
       THEN /\ out.rw.status = StatusBadRequest
            /\ out.rw.body = "Failed to validate Route Service Signature"
            /\ Count("next") = 0
            /\ out.req.Header = req.Header
       ELSE /\ Count("next") = 1
            /\ CallsTo("next")[1].args = <<out.req>>
            /\ \A n \in ProtocolHeaders : out.req.Header[n] = <<>>
            /\ out.req.ctx.RoutePool = req.ctx.RoutePool

\* C5 (as amended): on the return leg (route-service URL set, feature enabled,
\* signature header with a non-empty first value) a failed validation gives
\* 400 "Failed to validate Route Service Signature", no continuation and no
\* header stripped; a successful one gives exactly one continuation call with
\* the three headers gone and the backend pool still in the context, and no
\* call to the signing collaborator, the registry or the delegated proxy.
C5_ReturnLeg ==
    ToRouteService /\ config.enabled
        /\ Get(req.Header, RouteServiceSignature) # Empty => ReturnLegOutcome

\* C5 witness: a request that carried all three headers validated and went on
\* without them.
C5_Witness ==
    /\ ToRouteService
    /\ config.enabled
    /\ \A n \in ProtocolHeaders : req.Header[n] # <<>>
    /\ Count("ValidateSignature") = 1
    /\ ~out.calls[1].res
    /\ Count("next") = 1
    /\ \A n \in ProtocolHeaders : out.req.Header[n] = <<>>

\* C5 as stated: the same for every request on which the signature header is
\* present.
C5_ReturnLegByHeaderPresence ==
    ToRouteService /\ config.enabled
        /\ req.Header[RouteServiceSignature] # <<>> => ReturnLegOutcome

\* C6: on the outbound leg (route-service URL set, feature enabled, no
\* signature header) the signing collaborator is called exactly once, with
\* the route-service URL and scheme://host-without-port/uri, https when
\* recommended and http otherwise; when it fails the response is 500 "Route
\* service request failed.", no header is set, and neither the registry, the
\* continuation nor the delegated proxy is called.
C6_OutboundLegSigns ==
    ToRouteService /\ config.enabled /\ req.Header[RouteServiceSignature] = <<>> =>
        /\ Count("Request") = 1
        /\ out.calls[1].op = "Request"
        /\ out.calls[1].args =
               <<RouteServiceUrl(req.ctx.RoutePool), ExpectedForwardedURL>>
        /\ (req.RequestURI = UriFoo /\ config.recommendHttps =>
               out.calls[1].args[2] = ForwardedFoo)
        /\ Count("ValidateSignature") = 0
        /\ (out.calls[1].res.err =>
               /\ out.rw.status = StatusInternalServerError
               /\ out.rw.body = "Route service request failed."
               /\ out.req.Header = req.Header
               /\ out.calls = <<out.calls[1]>>)

\* C6 witness: /foo on app.example.com:8080 with https recommended was signed
\* as https://app.example.com/foo, and the signing failed.
C6_Witness ==
    /\ ToRouteService
    /\ config.enabled
    /\ config.recommendHttps
    /\ req.Header[RouteServiceSignature] = <<>>
    /\ req.Host = HostAppPort
    /\ req.RequestURI = UriFoo
    /\ out.calls[1].op = "Request"
    /\ out.calls[1].args[2] = ForwardedFoo
    /\ out.calls[1].res.err
    /\ out.rw.status = StatusInternalServerError

\* the handler signed the request, and the registry answered its lookup
SignedAndLookedUp ==
    /\ Handled
    /\ Count("Request") = 1
    /\ ~CallsTo("Request")[1].res.err
    /\ Count("Lookup") = 1

\* the request carries the three headers of the signed parameters
CarriesSignedHeaders(r, args) ==
    /\ r.Header[RouteServiceSignature] = <<args.Signature>>
    /\ r.Header[RouteServiceMetadata] = <<args.Metadata>>
    /\ r.Header[RouteServiceForwardedURL] = <<args.ForwardedURL>>

\* the registry's answer to the handler's lookup is a pool with an endpoint
InternalRouteService ==
    /\ CallsTo("Lookup")[1].res # NilPool
    /\ CallsTo("Lookup")[1].res.endpoints > 0

\* C7: after a successful signing whose lookup of host+path of the
\* route-service URL gave a non-empty pool, the request handed on carries the
\* three headers of the signed parameters, its context holds the parsed
\* route-service URL and, under the route-pool key, the route service's pool
\* in place of the backend's; the continuation is called exactly once and the
\* delegated proxy never.
C7_InternalRouteService ==
    SignedAndLookedUp /\ InternalRouteService =>
        LET args == CallsTo("Request")[1].res.args
        IN  /\ CallsTo("Lookup")[1].args = <<args.ParsedUrl.Host \o args.ParsedUrl.Path>>
            /\ CarriesSignedHeaders(out.req, args)
            /\ out.req.ctx.RouteServiceURL = args.ParsedUrl
            /\ out.req.ctx.RoutePool = CallsTo("Lookup")[1].res
            /\ out.req.ctx.RoutePool # req.ctx.RoutePool
            /\ Count("next") = 1
            /\ CallsTo("next")[1].args = <<out.req>>
            /\ Count("rsReverseProxy") = 0

\* C7 witness: the continuation got a request whose context holds the route
\* service's pool.
C7_Witness ==
    /\ SignedAndLookedUp
    /\ Count("next") = 1
    /\ CallsTo("next")[1].args[1].ctx.RoutePool = Pool("rs", Empty, 1)
    /\ CallsTo("next")[1].args[1].Header[RouteServiceSignature]
           = <<SignatureOf(ExpectedForwardedURL)>>

\* C8: after a successful signing whose lookup gave nil or an empty pool, the
\* delegated proxy is called exactly once, with the request carrying the three
\* signed headers, and the continuation never.
C8_ExternalRouteService ==
    SignedAndLookedUp /\ ~InternalRouteService =>
        /\ Count("rsReverseProxy") = 1
        /\ CallsTo("rsReverseProxy")[1].args = <<out.req>>
        /\ CarriesSignedHeaders(out.req, CallsTo("Request")[1].res.args)
        /\ Count("next") = 0

\* C8 witness: the registry holds an empty pool for the route service and the
\* delegated proxy got the signed request.
C8_Witness ==
    /\ SignedAndLookedUp
    /\ CallsTo("Lookup")[1].res = Pool("rs", Empty, 0)
    /\ Count("rsReverseProxy") = 1
    /\ CallsTo("rsReverseProxy")[1].args[1].Header[RouteServiceMetadata]
           = <<MetadataToken>>

\* C9: with a route-service URL and the feature disabled, every request, with
\* or without a signature header, gets 502, X-Cf-RouterError:
\* route_service_unsupported and "Support for route services is disabled.";
\* no collaborator and no continuation is called.
C9_FeatureDisabled ==
    ToRouteService /\ ~config.enabled =>
        /\ out.rw = [status |-> StatusBadGateway,
                     body |-> "Support for route services is disabled.",
                     routerError |-> "route_service_unsupported"]
        /\ out.calls = <<>>

\* C9 witness: a request with a signature header was turned away with 502.
C9_Witness ==
    /\ ToRouteService
    /\ ~config.enabled
    /\ req.Header[RouteServiceSignature] # <<>>
    /\ out.rw.status = StatusBadGateway
    /\ out.rw.routerError = "route_service_unsupported"

\* C10: with an empty route-service URL, whatever the headers and whether or
\* not the feature is enabled, the request, its headers and its context are
\* unchanged, the continuation is called exactly once, no response is
\* written and no collaborator is called.
C10_Passthrough ==
    Handled /\ req.ctx.RoutePool # Absent
        /\ RouteServiceUrl(req.ctx.RoutePool) = Empty =>
            /\ out.req = req
            /\ out.calls = <<RSCall("next", <<req>>, Void)>>
            /\ out.rw = NoResponse

\* C10 witness: with the feature disabled, a request carrying a signature
\* header went on untouched.
C10_Witness ==
    /\ Handled
    /\ req.ctx.RoutePool = Pool("backend", Empty, 1)
    /\ ~config.enabled
    /\ req.Header[RouteServiceSignature] = <<ForgedSignature>>
    /\ Count("next") = 1
    /\ out.req = req

\* C11: a request whose context holds no route pool is answered 502 with the
\* body "RoutePool not set on context"; the request is left as it came and
\* neither the continuation nor any collaborator is called.
C11_RoutePoolNotSet ==
    Handled /\ req.ctx.RoutePool = Absent =>
        /\ out.rw.status = StatusBadGateway
        /\ out.rw.body = "RoutePool not set on context"
        /\ out.calls = <<>>
        /\ out.req = req

\* C11 witness: with the feature enabled, a request that carries a signature
\* header but no route pool was answered 502.
C11_Witness ==
    /\ Handled
    /\ req.ctx.RoutePool = Absent
    /\ config.enabled
    /\ Get(req.Header, RouteServiceSignature) # Empty
    /\ out.rw.status = StatusBadGateway

\* the handler wrote a response itself
WroteResponse == out.rw.status # 0

\* one of the handler's failing branches was taken: no pool, feature disabled,
\* signature refused, signing failed
FailingBranch ==
    \/ req.ctx.RoutePool = Absent
    \/ ToRouteService /\ ~config.enabled
    \/ Count("ValidateSignature") = 1 /\ CallsTo("ValidateSignature")[1].res
    \/ Count("Request") = 1 /\ CallsTo("Request")[1].res.err

\* C12: whatever the context, the route-service URL, the headers and the
\* collaborators' answers, a call ends in exactly one of three ways: the
\* handler wrote an error response, or it called the continuation once, or
\* it called the delegated proxy once; and each failing branch wrote a
\* status and a body and did not call the continuation or the proxy.
C12_ExactlyOneOutcome ==
    Handled =>
        /\ \/ WroteResponse /\ Count("next") = 0 /\ Count("rsReverseProxy") = 0
           \/ ~WroteResponse /\ Count("next") = 1 /\ Count("rsReverseProxy") = 0
           \/ ~WroteResponse /\ Count("next") = 0 /\ Count("rsReverseProxy") = 1
        /\ (FailingBranch =>
              /\ WroteResponse
              /\ out.rw.body # ""
              /\ Count("next") = 0
              /\ Count("rsReverseProxy") = 0)
        /\ (WroteResponse => FailingBranch)

\* C12 witness: a request was handed to the delegated proxy, and to nothing
\* else, after signing succeeded.
C12_Witness ==
    /\ Handled
    /\ Count("rsReverseProxy") = 1
    /\ Count("next") = 0
    /\ ~WroteResponse
    /\ Count("Request") = 1

\* the handled request is one that came back from the route service
CameBack == Handled /\ sent # Absent

\* C17: a request that was signed with the forwarded URL F on its way out
\* and comes back with the headers it was given, the same URI and the same
\* host with whatever port, under the same configuration, is validated
\* against exactly F, is not signed or handed to the delegated proxy again,
\* and goes on to the continuation when the validation succeeds.
C17_SameForwardedURLOnBothLegs ==
    CameBack =>
        /\ Count("ValidateSignature") = 1
        /\ CallsTo("ValidateSignature")[1].args = <<req.Header, sent>>
        /\ Get(req.Header, RouteServiceSignature) = SignatureOf(sent)
        /\ Count("Request") = 0
        /\ Count("rsReverseProxy") = 0
        /\ (~CallsTo("ValidateSignature")[1].res =>
              Count("next") = 1 /\ out.rw = NoResponse)

\* C17 witness: a request signed for a host without a port came back to the
\* host with a port, was validated and went on.
C17_Witness ==
    /\ CameBack
    /\ req.Host = HostAppPort
    /\ sent = ExpectedForwardedURL
    /\ Count("ValidateSignature") = 1
    /\ Count("next") = 1

\* C18: requests handled at the same time, each with its own request, do not
\* interfere: however their steps interleave, what the handler did with each
\* is what it may do with that request handled alone.
C18_NoInterference ==
    \A i \in Workers :
        workers[i].pc = "done" => workers[i].out \in serveHTTP(workers[i].req)

\* C18 witness: one call signed its request and ended while the other, for
\* a request with another forwarded URL, was between building its forwarded
\* URL and asking its collaborator.
C18_Witness ==
    /\ workers["a"].pc = "done"
    /\ workers["a"].out.calls # <<>>
    /\ workers["a"].out.calls[1].op = "Request"
    /\ workers["b"].pc = "built"
    /\ frames["b"].forwardedURLRaw # Absent
    /\ frames["b"].forwardedURLRaw # frames["a"].forwardedURLRaw

====
